---- MODULE Spec2Model ----
(***************************************************************************)
(* Query assembly (createQuery), transport dispatch (newTransport) and PTR  *)
(* enrichment (Entry.LoadPTRs) of the q DNS client.                         *)
(*                                                                         *)
(* Strings the code inspects character by character (server identifiers,   *)
(* HTTP header lines, cookies) are sequences of one-character strings.      *)
(* Strings the code only passes on or hands to a library parser are opaque  *)
(* tokens.                                                                  *)
(***************************************************************************)
EXTENDS Integers, Sequences, FiniteSets, TLC

VARIABLES
    qpc,        \* createQuery: "idle" | "call" | "returned" | "fatal"
    flags,      \* createQuery: opts cli.Flags
    rrTypes,    \* createQuery: rrTypes []uint16
    queries,    \* createQuery: the returned []dns.Msg
    idCalls,    \* createQuery: the values dns.Id() returned, in call order
    tpc,        \* newTransport: "idle" | "call" | "returned" | "error"
    targs,      \* newTransport: server, transportType, tlsConfig and the global opts
    ts,         \* newTransport: the transport built (NoTransport until then)
    ppc,        \* LoadPTRs: "idle" | "call" | "loop" | "done"
    entry,      \* LoadPTRs: the Entry (Replies, PTRs; PTRsNil while the map is nil)
    pos,        \* LoadPTRs: <<i, j>>, the reply and answer the loops stand at
    outcome,    \* LoadPTRs: "running" | "ok" | "fatal" | "panic_nil_reply" | "panic_type_assertion"
    failed,     \* LoadPTRs: addresses for which some Exchange returned an error
    returned,   \* LoadPTRs: addresses for which some Exchange returned without error
    firstTarget \* LoadPTRs: address -> target of the first answer of the last non-empty reply to its PTR query

vars == <<qpc, flags, rrTypes, queries, idCalls, tpc, targs, ts,
          ppc, entry, pos, outcome, failed, returned, firstTarget>>

qvars == <<qpc, flags, rrTypes, queries, idCalls>>
tvars == <<tpc, targs, ts>>
pvars == <<ppc, entry, pos, outcome, failed, returned, firstTarget>>

(***************************************************************************)
(* Bounds of the model.                                                     *)
(***************************************************************************)
MaxTypes == 2       \* longest rrTypes list
MaxHeaders == 3     \* longest opts.HTTPHeaders list
MaxReplies == 2     \* longest Entry.Replies list

(***************************************************************************)
(* Program and wire constants.                                              *)
(***************************************************************************)
TypeA == 1
TypePTR == 12
TypeAAAA == 28
TypeOPT == 41
ClassINET == 1
UnsetID == -1
PadBlock == 128
HeaderSize == 12        \* dns.Msg.Len() of a message with no sections
QuestionFixed == 4      \* qtype + qclass after the name
RRHeaderFixed == 10     \* type, class, ttl, rdlength after the owner name
OptionFixed == 4        \* option code + option length
SubnetFixed == 4        \* family, source netmask, scope netmask
FamilyIPv4 == 1
FamilyIPv6 == 2
Uint16Mod == 65536

EDNS0NSID == 3
EDNS0SUBNET == 8
EDNS0COOKIE == 10
EDNS0PADDING == 12

Uint16(n) == n % Uint16Mod

Max(a, b) == IF a >= b THEN a ELSE b

RECURSIVE SumSeq(_)
SumSeq(s) == IF s = <<>> THEN 0 ELSE Head(s) + SumSeq(Tail(s))

(***************************************************************************)
(* createQuery (src/resolver.go).                                           *)
(***************************************************************************)

\* A domain name is the sequence of its label lengths; dns.Fqdn roots it.
\* Its wire length is one length octet per label, the labels, and the root octet.
DomainNameLen(name) == SumSeq([k \in 1..Len(name) |-> name[k] + 1]) + 1

RootName == <<>>

\* net.ParseCIDR on the sample subnets: bits is 32 when ip.To4() is not nil.
ParseCIDR(s) ==
    CASE s = "203.0.113.0/24" -> [err |-> FALSE, bits |-> 32, mask |-> 24]
      [] s = "2001:db8::/33"  -> [err |-> FALSE, bits |-> 128, mask |-> 33]
      [] OTHER                -> [err |-> TRUE, bits |-> 0, mask |-> 0]

NoOption == [Code |-> 0, Padding |-> 0, Family |-> 0, SourceNetmask |-> 0,
             SourceScope |-> 0, Cookie |-> <<>>]

\* Packed length of one EDNS0 option's payload.
OptionDataLen(o) ==
    CASE o.Code = EDNS0NSID    -> 0
      [] o.Code = EDNS0PADDING -> o.Padding
      [] o.Code = EDNS0SUBNET  -> SubnetFixed + ((o.SourceNetmask + 7) \div 8)
      [] o.Code = EDNS0COOKIE  -> Len(o.Cookie) \div 2
      [] OTHER                 -> 0

\* dns.OPT.len(): owner ".", the fixed RR header, and every option.
OPTLen(opt) ==
    DomainNameLen(opt.Name) + RRHeaderFixed
      + SumSeq([k \in 1..Len(opt.Option) |-> OptionFixed + OptionDataLen(opt.Option[k])])

QuestionLen(q) == DomainNameLen(q.Name) + QuestionFixed

\* dns.Msg.Len() of an uncompressed message: header, questions, additional records.
MsgLen(m) ==
    HeaderSize
      + SumSeq([k \in 1..Len(m.Question) |-> QuestionLen(m.Question[k])])
      + SumSeq([k \in 1..Len(m.Extra) |-> OPTLen(m.Extra[k])])

\* line 37: the condition under which an OPT record is built
HasEDNS0NoCookie(o) ==
    o.DNSSEC \/ o.NSID \/ o.Pad \/ o.ClientSubnet # ""

HasEDNS0(o) ==
    o.DNSSEC \/ o.NSID \/ o.Pad \/ o.ClientSubnet # "" \/ o.Cookie # <<>>

\* lines 24-28: the caller's ID unless it is the sentinel, else a fresh dns.Id()
QueryIdNoSentinel(o, fresh) == Uint16(o.ID)

QueryId(o, fresh) == IF o.ID # UnsetID THEN Uint16(o.ID) ELSE fresh

\* lines 59-68: the padding length, from the length of the message as it stands
PadLen(req, udpSize) ==
    LET msgLen == MsgLen(req)
        padLen == PadBlock - (msgLen % PadBlock)
    IN  IF msgLen + padLen > udpSize
        THEN Max(udpSize - msgLen, 0)
        ELSE padLen

\* lines 75-79: log.Fatalf on a client subnet that does not parse
SubnetFatal(o) == HasEDNS0(o) /\ o.ClientSubnet # "" /\ ParseCIDR(o.ClientSubnet).err

\* lines 38-102: the OPT record, built while req still has no question and no extra
BuildOPT(o, req) ==
    LET nsid   == IF o.NSID THEN <<[NoOption EXCEPT !.Code = EDNS0NSID]>> ELSE <<>>
        pad    == IF o.Pad
                  THEN <<[NoOption EXCEPT !.Code = EDNS0PADDING,
                                          !.Padding = PadLen(req, o.UDPBuffer)]>>
                  ELSE <<>>
        cidr   == ParseCIDR(o.ClientSubnet)
        subnet == IF o.ClientSubnet # ""
                  THEN <<[NoOption EXCEPT !.Code = EDNS0SUBNET,
                                          !.Family = IF cidr.bits = 32 THEN FamilyIPv4
                                                     ELSE FamilyIPv6,
                                          !.SourceNetmask = cidr.mask % 256]>>
                  ELSE <<>>
        cookie == IF o.Cookie # <<>>
                  THEN <<[NoOption EXCEPT !.Code = EDNS0COOKIE, !.Cookie = o.Cookie]>>
                  ELSE <<>>
    IN  [Name |-> RootName, Class |-> o.UDPBuffer, Rrtype |-> TypeOPT,
         Do |-> o.DNSSEC, Option |-> nsid \o pad \o subnet \o cookie]

\* lines 22-111: one query
BuildQuery(o, qType, fresh) ==
    LET req == [Id |-> QueryId(o, fresh),
                Authoritative |-> o.AuthoritativeAnswer,
                AuthenticatedData |-> o.AuthenticData,
                CheckingDisabled |-> o.CheckingDisabled,
                RecursionDesired |-> o.RecursionDesired,
                RecursionAvailable |-> o.RecursionAvailable,
                Zero |-> o.Zero,
                Truncated |-> o.Truncated,
                Question |-> <<>>,
                Extra |-> <<>>]
        withOpt == IF HasEDNS0(o)
                   THEN [req EXCEPT !.Extra = Append(req.Extra, BuildOPT(o, req))]
                   ELSE req
    IN  [withOpt EXCEPT !.Question =
            <<[Name |-> o.Name, Qtype |-> qType, Qclass |-> o.Class]>>]

\* A loop that drops a type it has already queried.
RECURSIVE CreateQueriesDedup(_, _, _)
CreateQueriesDedup(o, types, ids) ==
    IF types = <<>> THEN <<>>
    ELSE LET rest == CreateQueriesDedup(o, Tail(types), Tail(ids))
         IN  IF \E k \in 2..Len(types) : types[k] = Head(types)
             THEN rest
             ELSE <<BuildQuery(o, Head(types), Head(ids))>> \o rest

\* lines 18-115: one query per element of rrTypes, appended in order;
\* ids[k] is what dns.Id() returns in iteration k
RECURSIVE CreateQueries(_, _, _)
CreateQueries(o, types, ids) ==
    IF types = <<>> THEN <<>>
    ELSE <<BuildQuery(o, Head(types), Head(ids))>>
           \o CreateQueries(o, Tail(types), Tail(ids))

(***************************************************************************)
(* newTransport (src/resolver.go).                                          *)
(***************************************************************************)

SdnsPrefix == <<"s", "d", "n", "s", ":", "/", "/">>

\* strings.HasPrefix
HasPrefix(s, prefix) ==
    Len(s) >= Len(prefix) /\ SubSeq(s, 1, Len(prefix)) = prefix

\* strings.Contains, for a server that holds the scheme anywhere
Contains(s, sub) ==
    \E k \in 1..Len(s) : k + Len(sub) - 1 <= Len(s) /\ SubSeq(s, k, k + Len(sub) - 1) = sub

\* line 166: a DNSCrypt server given as a stamp
IsStampAnywhere(server) == Contains(server, SdnsPrefix)

IsStamp(server) == HasPrefix(server, SdnsPrefix)

\* line 129: an ODoH proxy is configured
UseODoHUnlessHTTP3(o) == o.ODoHProxy # "" /\ ~o.HTTP3

UseODoH(o) == o.ODoHProxy # ""

IsSpace(c) == c \in {" ", "\t", "\n", "\r"}

\* strings.TrimSpace
RECURSIVE TrimLeft(_)
TrimLeft(s) == IF s # <<>> /\ IsSpace(Head(s)) THEN TrimLeft(Tail(s)) ELSE s

RECURSIVE TrimRight(_)
TrimRight(s) ==
    IF s # <<>> /\ IsSpace(s[Len(s)]) THEN TrimRight(SubSeq(s, 1, Len(s) - 1)) ELSE s

TrimSpace(s) == TrimRight(TrimLeft(s))

\* index of the first / last colon of s, 0 when it has none
FirstColon(s) ==
    IF \E k \in 1..Len(s) : s[k] = ":"
    THEN CHOOSE k \in 1..Len(s) : s[k] = ":" /\ \A m \in 1..(k - 1) : s[m] # ":"
    ELSE 0

LastColon(s) ==
    IF \E k \in 1..Len(s) : s[k] = ":"
    THEN CHOOSE k \in 1..Len(s) : s[k] = ":" /\ \A m \in (k + 1)..Len(s) : s[m] # ":"
    ELSE 0

SplitAt(s, k) == IF k = 0 THEN <<s>> ELSE <<SubSeq(s, 1, k - 1), SubSeq(s, k + 1, Len(s))>>

\* line 142: strings.SplitN(header, ":", 2)
HeaderPartsLastColon(header) == SplitAt(header, LastColon(header))

HeaderParts(header) == SplitAt(header, FirstColon(header))

EmptyHeaders == [n \in {} |-> <<>>]

\* lines 140-151: the header map, values of one name appended in input order
RECURSIVE ParseHeaders(_, _)
ParseHeaders(list, acc) ==
    IF list = <<>> THEN acc
    ELSE LET parts == HeaderParts(Head(list))
         IN  IF Len(parts) = 2
             THEN LET name  == TrimSpace(parts[1])
                      value == TrimSpace(parts[2])
                      prev  == IF name \in DOMAIN acc THEN acc[name] ELSE <<>>
                  IN  ParseHeaders(Tail(list),
                        [n \in DOMAIN acc \cup {name} |->
                            IF n = name THEN Append(prev, value) ELSE acc[n]])
             ELSE ParseHeaders(Tail(list), acc)

NoTransport == [Kind |-> "none"]

TransportTypes == {"http", "dnscrypt", "quic", "tls", "tcp", "plain"}

\* lines 119-223: the transport for (server, transportType, tlsConfig) under opts o
NewTransport(server, transportType, tlsConfig, o) ==
    LET common == [Server |-> server, ReuseConn |-> o.ReuseConn]
    IN  CASE transportType = "http" ->
               IF UseODoH(o)
               THEN [Kind |-> "ODoH", Common |-> common, Proxy |-> o.ODoHProxy,
                     TLSConfig |-> tlsConfig]
               ELSE [Kind |-> "HTTP", Common |-> common, TLSConfig |-> tlsConfig,
                     UserAgent |-> o.HTTPUserAgent, Method |-> o.HTTPMethod,
                     HTTP2 |-> o.HTTP2, HTTP3 |-> o.HTTP3, NoPMTUd |-> ~o.PMTUD,
                     Headers |-> ParseHeaders(o.HTTPHeaders, EmptyHeaders)]
          [] transportType = "dnscrypt" ->
               IF IsStamp(server)
               THEN [Kind |-> "DNSCrypt", Common |-> common, ServerStamp |-> server,
                     TCP |-> o.DNSCryptTCP, UDPSize |-> o.DNSCryptUDPSize,
                     PublicKey |-> "", ProviderName |-> ""]
               ELSE [Kind |-> "DNSCrypt", Common |-> common, ServerStamp |-> <<>>,
                     TCP |-> o.DNSCryptTCP, UDPSize |-> o.DNSCryptUDPSize,
                     PublicKey |-> o.DNSCryptPublicKey,
                     ProviderName |-> o.DNSCryptProvider]
          [] transportType = "quic" ->
               [Kind |-> "QUIC", Common |-> common,
                TLSConfig |-> [tlsConfig EXCEPT !.NextProtos = o.QUICALPNTokens],
                PMTUD |-> o.PMTUD, AddLengthPrefix |-> o.QUICLengthPrefix]
          [] transportType = "tls" ->
               [Kind |-> "TLS", Common |-> common, TLSConfig |-> tlsConfig]
          [] transportType = "tcp" ->
               [Kind |-> "Plain", Common |-> common, PreferTCP |-> TRUE,
                UDPBuffer |-> o.UDPBuffer, Timeout |-> o.Timeout]
          [] transportType = "plain" ->
               [Kind |-> "Plain", Common |-> common, PreferTCP |-> FALSE,
                UDPBuffer |-> o.UDPBuffer, Timeout |-> o.Timeout]
          [] OTHER -> NoTransport

(***************************************************************************)
(* Entry.LoadPTRs (src/unnamed/part_000).                                   *)
(***************************************************************************)

\* dns.ReverseAddr on the addresses an A / AAAA record prints: "<nil>" is what
\* a record with empty rdata prints, and it does not parse as an address.
ReverseAddr(ip) ==
    CASE ip = "192.0.2.1"   -> [err |-> FALSE, qname |-> "1.2.0.192.in-addr.arpa."]
      [] ip = "2001:db8::1" -> [err |-> FALSE, qname |-> "1.0.0.0.8.b.d.0.1.0.0.2.ip6.arpa."]
      [] OTHER              -> [err |-> TRUE, qname |-> ""]

\* lines 57-64: only A and AAAA records are looked up
IsAddressRecord(rr) == rr.Rrtype \in {TypeA, TypeAAAA}

\* line 82: a reply worth caching
HasAnswer(res) == ~res.respNil /\ Len(res.Answer) > 0

\* line 83: resp.Answer[0].(*dns.PTR) succeeds only on a PTR record
AssertionHolds(rr) == rr.Rrtype = TypePTR

\* line 83: the cached value
Cached(res) == res.Answer[1].Target

EmptyPTRs == [a \in {} |-> ""]

Put(m, k, v) == [x \in DOMAIN m \cup {k} |-> IF x = k THEN v ELSE m[x]]

\* the reply and the record the loops of lines 53-54 stand at
CurReply == entry.Replies[pos[1]]
CurRR == CurReply.Answer[pos[2]]
InReplies == pos[1] <= Len(entry.Replies)
AtRecord == InReplies /\ ~CurReply.IsNil /\ pos[2] <= Len(CurReply.Answer)
AtLookup == AtRecord /\ IsAddressRecord(CurRR) /\ ~ReverseAddr(CurRR.Addr).err

(***************************************************************************)
(* Inputs.                                                                  *)
(***************************************************************************)
SeqsUpTo(S, n) == UNION {[1..k -> S] : k \in 0..n}

\* 16 hex digits: an 8-byte client cookie
CookieSample == <<"2", "4", "a", "5", "a", "c", "1", "2", "3", "4", "5", "6", "7", "8", "9", "0">>

HeaderFlagSets ==
    {[aa |-> FALSE, ad |-> FALSE, cd |-> FALSE, rd |-> TRUE, ra |-> FALSE, z |-> FALSE, tc |-> FALSE],
     [aa |-> TRUE, ad |-> TRUE, cd |-> TRUE, rd |-> FALSE, ra |-> TRUE, z |-> TRUE, tc |-> TRUE]}

\* values dns.Id() may return
IdSet == {4660, 48879}

\* resolved options createQuery may be given
FlagsSet ==
    {[ID |-> id, DNSSEC |-> do, NSID |-> nsid, Pad |-> pad, ClientSubnet |-> subnet,
      Cookie |-> cookie, UDPBuffer |-> buf, Name |-> name, Class |-> ClassINET,
      AuthoritativeAnswer |-> h.aa, AuthenticData |-> h.ad, CheckingDisabled |-> h.cd,
      RecursionDesired |-> h.rd, RecursionAvailable |-> h.ra, Zero |-> h.z,
      Truncated |-> h.tc] :
        id \in {UnsetID, 7, 65543}, do \in BOOLEAN, nsid \in BOOLEAN, pad \in BOOLEAN,
        subnet \in {"", "203.0.113.0/24", "2001:db8::/33", "not-a-subnet"},
        cookie \in {<<>>, CookieSample}, buf \in {0, 100, 1232},
        name \in {<<7, 3>>, <<1, 2>>}, h \in HeaderFlagSets}

HeaderSamples ==
    {<<"X", "-", "T", "e", "s", "t", ":", " ", " ", "v", "a", "l", "u", "e", " ">>,
     <<"m", "a", "l", "f", "o", "r", "m", "e", "d">>,
     <<" ", "X", "-", "T", "e", "s", "t", " ", ":", "a", ":", "b">>}

ServerSamples ==
    {<<"s", "d", "n", "s", ":", "/", "/", "A", "Q">>,
     <<"x", "s", "d", "n", "s", ":", "/", "/", "A">>,
     <<"s", "d", "n", "s", ":", "/">>,
     <<"9", ".", "9", ".", "9", ".", "9">>}

\* the global opts newTransport reads
TransportOptsSet ==
    {[ODoHProxy |-> proxy, HTTPHeaders |-> hs, HTTPMethod |-> http[1],
      HTTP2 |-> http[2] = 2, HTTP3 |-> http[2] = 3, HTTPUserAgent |-> "",
      PMTUD |-> dc[3], DNSCryptTCP |-> dc[3], DNSCryptUDPSize |-> 0,
      DNSCryptPublicKey |-> dc[1], DNSCryptProvider |-> dc[2],
      QUICALPNTokens |-> <<"doq">>, QUICLengthPrefix |-> dc[3],
      ReuseConn |-> dc[3], UDPBuffer |-> 1232, Timeout |-> 10] :
        proxy \in {"", "odoh.proxy.example"},
        hs \in SeqsUpTo(HeaderSamples, MaxHeaders),
        http \in {<<"GET", 1>>, <<"POST", 2>>, <<"GET", 3>>, <<"POST", 3>>},
        dc \in {<<"", "", FALSE>>, <<"11f1", "2.dnscrypt-cert.example", TRUE>>}}

TLSConfigSample == [ServerName |-> "dns.example", NextProtos |-> <<>>]

TargsSet ==
    [server : ServerSamples, transportType : TransportTypes \cup {"sctp"},
     tlsConfig : {TLSConfigSample}, o : TransportOptsSet]

RRA == [Rrtype |-> TypeA, Addr |-> "192.0.2.1", Target |-> ""]
RRAAAA == [Rrtype |-> TypeAAAA, Addr |-> "2001:db8::1", Target |-> ""]
RRAEmpty == [Rrtype |-> TypeA, Addr |-> "<nil>", Target |-> ""]
RRMX == [Rrtype |-> 15, Addr |-> "", Target |-> "mx.example."]
RRPTRa == [Rrtype |-> TypePTR, Addr |-> "", Target |-> "a.example."]
RRPTRb == [Rrtype |-> TypePTR, Addr |-> "", Target |-> "b.example."]
RRCNAME == [Rrtype |-> 5, Addr |-> "", Target |-> "c.example."]

NilReply == [IsNil |-> TRUE, Answer |-> <<>>]

\* answer sections of the replies of a lookup session
AnswerSamples ==
    {<<>>, <<RRA>>, <<RRMX, RRA>>, <<RRA, RRAAAA>>, <<RRA, RRA>>, <<RRAEmpty>>}

\* Entry.Replies: one slot per query, nil where the exchange of that query failed
ReplySet == {NilReply} \cup {[IsNil |-> FALSE, Answer |-> a] : a \in AnswerSamples}

\* what (*txp).Exchange may give back
ExchangeResults ==
    {[err |-> TRUE, respNil |-> TRUE, Answer |-> <<>>],
     [err |-> FALSE, respNil |-> TRUE, Answer |-> <<>>]}
    \cup {[err |-> FALSE, respNil |-> FALSE, Answer |-> a] :
            a \in {<<>>, <<RRPTRa>>, <<RRPTRb, RRPTRa>>, <<RRCNAME, RRPTRa>>}}

QueryIdle ==
    /\ qpc = "idle" /\ flags = <<>> /\ rrTypes = <<>> /\ queries = <<>> /\ idCalls = <<>>

TransportIdle ==
    /\ tpc = "idle" /\ targs = <<>> /\ ts = NoTransport

PTRIdle ==
    /\ ppc = "idle" /\ entry = <<>> /\ pos = <<1, 1>> /\ outcome = "running"
    /\ failed = {} /\ returned = {} /\ firstTarget = EmptyPTRs

InitQuery ==
    /\ qpc = "call"
    /\ flags \in FlagsSet
    /\ rrTypes \in SeqsUpTo({TypeA, TypeAAAA}, MaxTypes)
    /\ queries = <<>>
    /\ idCalls = <<>>
    /\ TransportIdle /\ PTRIdle

InitTransport ==
    /\ tpc = "call"
    /\ targs \in TargsSet
    /\ ts = NoTransport
    /\ QueryIdle /\ PTRIdle

InitPTR ==
    /\ ppc = "call"
    /\ entry \in [Replies : SeqsUpTo(ReplySet, MaxReplies), PTRsNil : BOOLEAN,
                  PTRs : {EmptyPTRs}]
    /\ pos = <<1, 1>>
    /\ outcome = "running"
    /\ failed = {}
    /\ returned = {}
    /\ firstTarget = EmptyPTRs
    /\ QueryIdle /\ TransportIdle

Init == InitQuery \/ InitTransport \/ InitPTR

(***************************************************************************)
(* Actions.                                                                 *)
(***************************************************************************)

\* createQuery returns: every iteration ran to its append.  With the caller
\* ID fixed dns.Id() is not called and ids is not read.
CreateQueryReturns ==
    /\ qpc = "call"
    /\ ~(rrTypes # <<>> /\ SubnetFatal(flags))
    /\ \E ids \in [1..Len(rrTypes) -> IdSet] :
         /\ flags.ID # UnsetID => \A k \in 1..Len(rrTypes) : ids[k] = 4660
         /\ queries' = CreateQueries(flags, rrTypes, ids)
         /\ idCalls' = IF flags.ID = UnsetID THEN ids ELSE <<>>
    /\ qpc' = "returned"
    /\ UNCHANGED <<flags, rrTypes, tvars, pvars>>

\* createQuery exits the process in its first iteration (log.Fatalf, line 78)
CreateQueryFatal ==
    /\ qpc = "call"
    /\ rrTypes # <<>> /\ SubnetFatal(flags)
    /\ \E fresh \in IdSet :
         /\ flags.ID # UnsetID => fresh = 4660
         /\ idCalls' = IF flags.ID = UnsetID THEN <<fresh>> ELSE <<>>
    /\ qpc' = "fatal"
    /\ UNCHANGED <<flags, rrTypes, queries, tvars, pvars>>

\* newTransport returns a transport (line 222)
NewTransportReturns ==
    /\ tpc = "call"
    /\ LET t == NewTransport(targs.server, targs.transportType, targs.tlsConfig, targs.o)
       IN  /\ t.Kind # "none"
           /\ ts' = t
    /\ tpc' = "returned"
    /\ UNCHANGED <<targs, qvars, pvars>>

\* newTransport returns nil and an error (line 219)
NewTransportUnknown ==
    /\ tpc = "call"
    /\ NewTransport(targs.server, targs.transportType, targs.tlsConfig, targs.o).Kind = "none"
    /\ tpc' = "error"
    /\ UNCHANGED <<targs, ts, qvars, pvars>>

\* lines 49-51: the cache is made on entry
LoadPTRsEnter ==
    /\ ppc = "call"
    /\ entry' = [entry EXCEPT !.PTRsNil = FALSE]
    /\ ppc' = "loop"
    /\ UNCHANGED <<pos, outcome, failed, returned, firstTarget, qvars, tvars>>

\* line 54 on a nil *dns.Msg: reply.Answer dereferences nil
NilReplyPanic ==
    /\ ppc = "loop" /\ InReplies /\ CurReply.IsNil
    /\ ppc' = "done"
    /\ outcome' = "panic_nil_reply"
    /\ UNCHANGED <<entry, pos, failed, returned, firstTarget, qvars, tvars>>

\* line 54: the answers of this reply are exhausted
NextReply ==
    /\ ppc = "loop" /\ InReplies /\ ~CurReply.IsNil /\ pos[2] > Len(CurReply.Answer)
    /\ pos' = <<pos[1] + 1, 1>>
    /\ UNCHANGED <<ppc, entry, outcome, failed, returned, firstTarget, qvars, tvars>>

\* lines 62-63: a record that is neither A nor AAAA
SkipRecord ==
    /\ ppc = "loop" /\ AtRecord /\ ~IsAddressRecord(CurRR)
    /\ pos' = <<pos[1], pos[2] + 1>>
    /\ UNCHANGED <<ppc, entry, outcome, failed, returned, firstTarget, qvars, tvars>>

\* lines 67-70: the address does not reverse (log.Fatalf)
ReverseFatal ==
    /\ ppc = "loop" /\ AtRecord /\ IsAddressRecord(CurRR) /\ ReverseAddr(CurRR.Addr).err
    /\ ppc' = "done"
    /\ outcome' = "fatal"
    /\ UNCHANGED <<entry, pos, failed, returned, firstTarget, qvars, tvars>>

\* lines 75-79: Exchange fails; warn and go on
ExchangeFails ==
    /\ ppc = "loop" /\ AtLookup
    /\ \E res \in ExchangeResults : res.err
    /\ failed' = failed \cup {CurRR.Addr}
    /\ pos' = <<pos[1], pos[2] + 1>>
    /\ UNCHANGED <<ppc, entry, outcome, returned, firstTarget, qvars, tvars>>

\* lines 75-85: Exchange returns; line 82 finds nothing to cache
ExchangeNoAnswer ==
    /\ ppc = "loop" /\ AtLookup
    /\ \E res \in ExchangeResults : ~res.err /\ ~HasAnswer(res)
    /\ returned' = returned \cup {CurRR.Addr}
    /\ pos' = <<pos[1], pos[2] + 1>>
    /\ UNCHANGED <<ppc, entry, outcome, failed, firstTarget, qvars, tvars>>

\* lines 75-85: Exchange returns answers and the first is a PTR record
ExchangeCached ==
    /\ ppc = "loop" /\ AtLookup
    /\ \E res \in ExchangeResults :
         /\ ~res.err /\ HasAnswer(res) /\ AssertionHolds(res.Answer[1])
         /\ entry' = [entry EXCEPT !.PTRs = Put(entry.PTRs, CurRR.Addr, Cached(res))]
         /\ firstTarget' = Put(firstTarget, CurRR.Addr, res.Answer[1].Target)
    /\ returned' = returned \cup {CurRR.Addr}
    /\ pos' = <<pos[1], pos[2] + 1>>
    /\ UNCHANGED <<ppc, outcome, failed, qvars, tvars>>

\* line 83: Exchange returns answers and the first is no PTR record
TypeAssertionPanic ==
    /\ ppc = "loop" /\ AtLookup
    /\ \E res \in ExchangeResults :
         /\ ~res.err /\ HasAnswer(res) /\ ~AssertionHolds(res.Answer[1])
         /\ firstTarget' = Put(firstTarget, CurRR.Addr, res.Answer[1].Target)
    /\ returned' = returned \cup {CurRR.Addr}
    /\ ppc' = "done"
    /\ outcome' = "panic_type_assertion"
    /\ UNCHANGED <<entry, pos, failed, qvars, tvars>>

\* line 87: both loops are over
LoadPTRsReturns ==
    /\ ppc = "loop" /\ ~InReplies
    /\ ppc' = "done"
    /\ outcome' = "ok"
    /\ UNCHANGED <<entry, pos, failed, returned, firstTarget, qvars, tvars>>

Next ==
    \/ CreateQueryReturns
    \/ CreateQueryFatal
    \/ NewTransportReturns
    \/ NewTransportUnknown
    \/ LoadPTRsEnter
    \/ NilReplyPanic
    \/ NextReply
    \/ SkipRecord
    \/ ReverseFatal
    \/ ExchangeFails
    \/ ExchangeNoAnswer
    \/ ExchangeCached
    \/ TypeAssertionPanic
    \/ LoadPTRsReturns

Spec == Init /\ [][Next]_vars

(***************************************************************************)
(* createQuery: properties.                                                 *)
(***************************************************************************)

\* the padding carried by a query (0 when it has no OPT record)
PaddingOf(q) ==
    SumSeq([k \in 1..Len(q.Extra) |->
        SumSeq([m \in 1..Len(q.Extra[k].Option) |-> q.Extra[k].Option[m].Padding])])

\* C1: with padding enabled, every returned query's serialized length is a
\* multiple of 128, or (truncation by the buffer size) its padding length is
\* max(0, bufferSize - unpaddedLength); unpaddedLength is read both ways,
\* with and without the empty padding option's four octets.
C1_PaddedToBlock ==
    (qpc = "returned" /\ flags.Pad) =>
        \A k \in 1..Len(queries) :
            LET len      == MsgLen(queries[k])
                padLen   == PaddingOf(queries[k])
                unpadded == len - padLen
            IN  \/ len % PadBlock = 0
                \/ padLen = Max(0, flags.UDPBuffer - unpadded)
                \/ padLen = Max(0, flags.UDPBuffer - (unpadded - OptionFixed))

\* C2 as stated: a returned query carries an OPT record iff at least one of
\* DNSSEC-OK, NSID, padding, client subnet, cookie, advertised UDP buffer size
\* is active, and never more than one.
C2_OptIffAnyFieldActive ==
    qpc = "returned" =>
        \A k \in 1..Len(queries) :
            /\ Len(queries[k].Extra) <= 1
            /\ Len(queries[k].Extra) = 1 <=>
                 (\/ flags.DNSSEC \/ flags.NSID \/ flags.Pad
                  \/ flags.ClientSubnet # "" \/ flags.Cookie # <<>>
                  \/ flags.UDPBuffer # 0)

\* C2 amended: a returned query carries an OPT record iff at least one of
\* DNSSEC-OK, NSID, padding, client subnet, cookie is active (the advertised
\* UDP buffer size alone adds none); without one the additional section is
\* empty; there is never more than one OPT record, and its class is the
\* advertised buffer size.
C2_OptIffOptionRequested ==
    qpc = "returned" =>
        \A k \in 1..Len(queries) :
            LET active == \/ flags.DNSSEC \/ flags.NSID \/ flags.Pad
                          \/ flags.ClientSubnet # "" \/ flags.Cookie # <<>>
            IN  /\ Len(queries[k].Extra) <= 1
                /\ active => /\ Len(queries[k].Extra) = 1
                             /\ queries[k].Extra[1].Rrtype = TypeOPT
                             /\ queries[k].Extra[1].Class = flags.UDPBuffer
                /\ ~active => queries[k].Extra = <<>>

\* a cookie alone brings the OPT record, a buffer size with it
C2_Witness ==
    /\ qpc = "returned" /\ Len(queries) = 2
    /\ ~flags.DNSSEC /\ ~flags.NSID /\ ~flags.Pad /\ flags.ClientSubnet = ""
    /\ flags.Cookie # <<>> /\ flags.UDPBuffer # 0
    /\ Len(queries[1].Extra) = 1 /\ Len(queries[2].Extra) = 1

\* C3 as stated: with the caller ID unset the identifiers of a batch are
\* pairwise distinct; with it fixed they all equal the caller's value (as a
\* 16-bit identifier).
C3_DistinctOrFixed ==
    qpc = "returned" =>
        /\ flags.ID = UnsetID =>
             \A i, j \in 1..Len(queries) : i # j => queries[i].Id # queries[j].Id
        /\ flags.ID # UnsetID =>
             \A i \in 1..Len(queries) : queries[i].Id = Uint16(flags.ID)

\* C3 amended: with the caller ID unset, every query takes the value of its
\* own dns.Id() call (one call per query, so two identifiers may coincide);
\* with it fixed, dns.Id() is never called and every identifier is the
\* caller's value modulo 2^16.
C3_FreshPerQueryOrFixed ==
    qpc = "returned" =>
        /\ flags.ID = UnsetID =>
             /\ Len(idCalls) = Len(queries)
             /\ \A i \in 1..Len(queries) : queries[i].Id = idCalls[i]
        /\ flags.ID # UnsetID =>
             /\ idCalls = <<>>
             /\ \A i \in 1..Len(queries) :
                  /\ queries[i].Id \in 0..(Uint16Mod - 1)
                  /\ (queries[i].Id - flags.ID) % Uint16Mod = 0

\* two fresh identifiers of one batch that coincide
C3_Witness ==
    /\ qpc = "returned" /\ flags.ID = UnsetID /\ Len(queries) = 2
    /\ Len(idCalls) = 2 /\ queries[1].Id = queries[2].Id

\* C4: createQuery returns one query per requested type, in input order, the
\* k-th query asking exactly one question, for the k-th type; repeated types
\* are kept and the empty list gives the empty result.
C4_OneQueryPerType ==
    qpc = "returned" =>
        /\ Len(queries) = Len(rrTypes)
        /\ \A k \in 1..Len(rrTypes) :
             /\ Len(queries[k].Question) = 1
             /\ queries[k].Question[1].Qtype = rrTypes[k]
             /\ queries[k].Question[1].Name = flags.Name
             /\ queries[k].Question[1].Qclass = flags.Class

\* a repeated type, queried twice
C4_Witness ==
    /\ qpc = "returned" /\ Len(rrTypes) = 2 /\ rrTypes[1] = rrTypes[2]
    /\ Len(queries) = 2 /\ queries[1].Question[1].Qtype = queries[2].Question[1].Qtype

(***************************************************************************)
(* newTransport: properties.                                                *)
(***************************************************************************)

TransportDone == tpc \in {"returned", "error"}

\* C7: for protocol HTTP a non-empty ODoH proxy always gives the ODoH variant
\* (target, proxy, TLS config), whatever the method, headers and HTTP version
\* options; an empty proxy gives plain DoH; a tag outside the six known ones
\* gives an error and no transport.
C7_ODoHOverDoH ==
    TransportDone =>
        /\ (targs.transportType = "http" /\ targs.o.ODoHProxy # "") =>
             /\ tpc = "returned"
             /\ ts.Kind = "ODoH"
             /\ ts.Common.Server = targs.server
             /\ ts.Proxy = targs.o.ODoHProxy
             /\ ts.TLSConfig = targs.tlsConfig
        /\ (targs.transportType = "http" /\ targs.o.ODoHProxy = "") =>
             /\ tpc = "returned"
             /\ ts.Kind = "HTTP"
             /\ ts.Method = targs.o.HTTPMethod
        /\ targs.transportType \notin {"http", "dnscrypt", "quic", "tls", "tcp", "plain"} =>
             /\ tpc = "error"
             /\ ts = NoTransport
        /\ targs.transportType \in {"http", "dnscrypt", "quic", "tls", "tcp", "plain"} =>
             tpc = "returned"

\* ODoH chosen although HTTP/3, POST and headers are configured
C7_Witness ==
    /\ tpc = "returned" /\ targs.transportType = "http"
    /\ targs.o.ODoHProxy # "" /\ targs.o.HTTP3 /\ targs.o.HTTPMethod = "POST"
    /\ Len(targs.o.HTTPHeaders) = 3
    /\ ts.Kind = "ODoH"

\* the server begins with the seven characters s d n s : / /
BeginsWithScheme(server) ==
    /\ Len(server) >= 7
    /\ server[1] = "s" /\ server[2] = "d" /\ server[3] = "n" /\ server[4] = "s"
    /\ server[5] = ":" /\ server[6] = "/" /\ server[7] = "/"

\* C8: for protocol DNSCrypt a server beginning "sdns://" always takes the
\* stamp path (ServerStamp is the server, no public key, no provider name),
\* whatever key and provider are configured; any other server takes the
\* configured key and provider and no stamp; never both.
C8_StampByPrefix ==
    (tpc = "returned" /\ targs.transportType = "dnscrypt") =>
        /\ ts.Kind = "DNSCrypt"
        /\ BeginsWithScheme(targs.server) =>
             /\ ts.ServerStamp = targs.server
             /\ ts.PublicKey = "" /\ ts.ProviderName = ""
        /\ ~BeginsWithScheme(targs.server) =>
             /\ ts.ServerStamp = <<>>
             /\ ts.PublicKey = targs.o.DNSCryptPublicKey
             /\ ts.ProviderName = targs.o.DNSCryptProvider
        /\ ~(ts.ServerStamp # <<>> /\ (ts.PublicKey # "" \/ ts.ProviderName # ""))

\* a stamp server with key and provider configured as well
C8_Witness ==
    /\ tpc = "returned" /\ targs.transportType = "dnscrypt"
    /\ BeginsWithScheme(targs.server)
    /\ targs.o.DNSCryptPublicKey # "" /\ targs.o.DNSCryptProvider # ""
    /\ ts.ServerStamp = targs.server /\ ts.PublicKey = ""

\* t is s without its leading and trailing white space
IsTrimOf(t, s) ==
    \E a \in 1..(Len(s) + 1), b \in 0..Len(s) :
        /\ a <= b + 1
        /\ t = SubSeq(s, a, b)
        /\ \A m \in 1..(a - 1) : IsSpace(s[m])
        /\ \A m \in (b + 1)..Len(s) : IsSpace(s[m])
        /\ a <= b => (~IsSpace(s[a]) /\ ~IsSpace(s[b]))

\* the part of a header line before / after its first colon
HasColon(h) == \E k \in 1..Len(h) : h[k] = ":"
ColonAt(h) == CHOOSE k \in 1..Len(h) : h[k] = ":" /\ \A m \in 1..Len(h) : h[m] = ":" => k <= m
BeforeColon(h) == [m \in 1..(ColonAt(h) - 1) |-> h[m]]
AfterColon(h) == [m \in 1..(Len(h) - ColonAt(h)) |-> h[ColonAt(h) + m]]

\* the lines of hs, by index, that carry the header called name
LinesNamed(hs, name) ==
    {i \in 1..Len(hs) : HasColon(hs[i]) /\ IsTrimOf(name, BeforeColon(hs[i]))}

\* every name some line of hs carries
NamesIn(hs) ==
    UNION {{SubSeq(hs[i], a, b) : a \in 1..(Len(hs[i]) + 1), b \in 0..Len(hs[i])} :
             i \in {j \in 1..Len(hs) : HasColon(hs[j])}}

XTestLine == <<"X", "-", "T", "e", "s", "t", ":", " ", " ", "v", "a", "l", "u", "e", " ">>
XTestName == <<"X", "-", "T", "e", "s", "t">>
XTestValue == <<"v", "a", "l", "u", "e">>

\* C9: the plain DoH transport's header map holds, for every header line with
\* a colon, the trimmed text before its first colon as name and the trimmed
\* text after it as value (later colons stay in the value); lines without a
\* colon add nothing and do not fail the construction; the values of one name
\* are in input order; "X-Test:  value " gives "X-Test" -> "value".
C9_HeadersSplitOnFirstColon ==
    (TransportDone /\ targs.transportType = "http" /\ targs.o.ODoHProxy = "") =>
        LET hs == targs.o.HTTPHeaders
        IN  /\ tpc = "returned" /\ ts.Kind = "HTTP"
            /\ DOMAIN ts.Headers = {n \in NamesIn(hs) : LinesNamed(hs, n) # {}}
            /\ \A n \in DOMAIN ts.Headers :
                 /\ Len(ts.Headers[n]) = Cardinality(LinesNamed(hs, n))
                 /\ \A i \in LinesNamed(hs, n) :
                      IsTrimOf(ts.Headers[n][Cardinality({m \in LinesNamed(hs, n) : m <= i})],
                               AfterColon(hs[i]))
            /\ hs = <<XTestLine>> =>
                 (DOMAIN ts.Headers = {XTestName} /\ ts.Headers[XTestName] = <<XTestValue>>)

\* two lines of one name, the second with a later colon, around a dropped line
C9_Witness ==
    /\ tpc = "returned" /\ targs.transportType = "http" /\ ts.Kind = "HTTP"
    /\ Len(targs.o.HTTPHeaders) = 3
    /\ targs.o.HTTPHeaders[1] = XTestLine
    /\ ~HasColon(targs.o.HTTPHeaders[2])
    /\ HasColon(targs.o.HTTPHeaders[3]) /\ targs.o.HTTPHeaders[3] # XTestLine
    /\ DOMAIN ts.Headers = {XTestName}
    /\ ts.Headers[XTestName] = <<XTestValue, <<"a", ":", "b">> >>

(***************************************************************************)
(* Entry.LoadPTRs: properties.                                              *)
(***************************************************************************)

\* some slot of Replies is nil
HasNilSlot == \E i \in 1..Len(entry.Replies) : entry.Replies[i].IsNil

\* C5: once some PTR exchange has failed and none has succeeded, LoadPTRs
\* still runs through every reply and returns normally (it neither raises nor
\* aborts), and the PTR cache it leaves is empty.  (An address that does not
\* reverse is fatal by design and is left aside.)
C5_FailedExchangesNeverAbort ==
    (ppc = "done" /\ failed # {} /\ returned = {} /\ outcome # "fatal") =>
        /\ outcome = "ok"
        /\ pos[1] = Len(entry.Replies) + 1
        /\ ~entry.PTRsNil
        /\ entry.PTRs = EmptyPTRs

\* C6: on an Entry without nil slots, LoadPTRs returns normally and the cache
\* maps every address whose PTR exchange gave a reply with at least one
\* answer to the target of that first answer, whatever its record type; a
\* reply without answers adds no entry.  (An address that does not reverse is
\* fatal by design and is left aside.)
C6_FirstAnswerCached ==
    (ppc = "done" /\ ~HasNilSlot /\ outcome # "fatal") =>
        /\ outcome = "ok"
        /\ DOMAIN entry.PTRs = DOMAIN firstTarget
        /\ \A ip \in DOMAIN firstTarget : entry.PTRs[ip] = firstTarget[ip]

\* C10: on an Entry with nil slots, LoadPTRs returns normally: the nil slots
\* are skipped and both loops run to the end of Replies.  (Runs ended by a
\* first answer that is no PTR record, or by an address that does not
\* reverse, are left aside.)
C10_NilSlotsSkipped ==
    (ppc = "done" /\ HasNilSlot /\ outcome \notin {"fatal", "panic_type_assertion"}) =>
        /\ outcome = "ok"
        /\ pos[1] = Len(entry.Replies) + 1

====
